---------------------------- MODULE Spec2Model ----------------------------
(***************************************************************************)
(* caljson: the /caljson request handler (caljsonHandler), the event       *)
(* window extractor (parseEvent) and the time parsing helper               *)
(* (parseICalTime) of src/main.go.                                         *)
(*                                                                         *)
(* Instants are whole hours since 0001-01-01T00:00Z (Go's zero time).  A   *)
(* time.Time is a record [inst, loc]: the instant and the zone tag.  Zones *)
(* are the fixed-offset zones of ZoneOffsets; "Local" is the process's     *)
(* zone, whose name is the variable localZone.                             *)
(***************************************************************************)
EXTENDS Integers, Sequences, FiniteSets, TLC

VARIABLES
    pc,          \* position in caljsonHandler
    ics,         \* the raw "ics" query parameter
    dayStr,      \* the raw "day" query parameter, a sequence of characters
    dayOffset,   \* strconv.Atoi(dayStr)
    localZone,   \* the zone time.Local stands for
    now,         \* time.Now(), as local wall-clock fields [y, m, d, h]
    doc,         \* calendar.Components
    targetDate,  \* now.AddDate(0, 0, dayOffset), as [y, m, d, h]
    targetStart, \* instant
    targetEnd,   \* instant
    idx,         \* index of the next component of the range loop
    events,      \* the slice the loop collects, in collection order
    last,        \* what the latest parseEvent call produced
    resp         \* the responses written, in order

vars == <<pc, ics, dayStr, dayOffset, localZone, now, doc, targetDate,
          targetStart, targetEnd, idx, events, last, resp>>

-----------------------------------------------------------------------------
(* Bounds *)

MaxComponents == 3

MaxDayOffset == 2

-----------------------------------------------------------------------------
(* The time library, as the code uses it *)

\* The IANA names time.LoadLocation resolves in this model, with their
\* (fixed) UTC offsets in hours.
ZoneOffsets ==
    [z \in {"UTC", "Asia/Tokyo", "America/Phoenix"} |->
        CASE z = "UTC" -> 0
          [] z = "Asia/Tokyo" -> 9
          [] z = "America/Phoenix" -> 0 - 7]

LocalZones == DOMAIN ZoneOffsets

\* time.LoadLocation(name): err == nil exactly for a known name.
LoadLocationOk(name) == name \in DOMAIN ZoneOffsets

\* The UTC offset of a zone tag; time.Local is the process's zone.
OffsetOf(loc, local) ==
    IF loc = "Local" THEN ZoneOffsets[local] ELSE ZoneOffsets[loc]

IsLeap(y) == (y % 4 = 0) /\ ((y % 100 # 0) \/ (y % 400 = 0))

\* Days from 0001-01-01 to January 1st of year y.
DaysSinceEpoch(y) ==
    365 * (y - 1) + ((y - 1) \div 4) - ((y - 1) \div 100) + ((y - 1) \div 400)

DaysBeforeTable == <<0, 31, 59, 90, 120, 151, 181, 212, 243, 273, 304, 334, 365>>

\* Days of year y before the first of month m (m = 13: the whole year).
DaysBefore(m, y) == DaysBeforeTable[m] + (IF IsLeap(y) /\ m >= 3 THEN 1 ELSE 0)

\* time.Date's day count: the day may lie outside the month (AddDate relies
\* on that), the result is normalised by construction.
AbsDay(y, m, d) == DaysSinceEpoch(y) + DaysBefore(m, y) + d - 1

\* Year(), Month(), Day() of a day count.
CivilOf(n) ==
    LET y == CHOOSE yy \in (n \div 366)..((n \div 365) + 2) :
                 DaysSinceEpoch(yy) <= n /\ n < DaysSinceEpoch(yy + 1)
        r == n - DaysSinceEpoch(y)
        m == CHOOSE mm \in 1..12 : DaysBefore(mm, y) <= r /\ r < DaysBefore(mm + 1, y)
    IN  [y |-> y, m |-> m, d |-> r - DaysBefore(m, y) + 1]

\* time.Date(y, m, d, h, 0, 0, 0, loc) as an instant.
DateInstant(y, m, d, h, loc, local) == AbsDay(y, m, d) * 24 + h - OffsetOf(loc, local)

MkTime(inst, loc) == [inst |-> inst, loc |-> loc]

ZeroTime == MkTime(0, "UTC")

\* t.Before(u)
Before(t, u) == t.inst < u.inst

\* t.After(u)
After(t, u) == t.inst > u.inst

\* t.Add(h hours)
Add(t, h) == MkTime(t.inst + h, t.loc)

\* t.In(loc): the same instant, tagged with loc.
In(t, loc) == MkTime(t.inst, loc)

-----------------------------------------------------------------------------
(* Components and properties (github.com/arran4/golang-ical, as used) *)

\* A property value is the text of the property, kept by its shape:
\*   "DATE" yyyymmdd, "DT" yyyymmddThhmmss, "DTZ" yyyymmddThhmmssZ,
\*   "BAD" anything else; y, m, d, h are the digits it carries.
\* A property is [Value, ICalParameters]; ICalParameters maps the parameter
\* names that are present to their lists of values.  A component is
\* [kind, props]; props maps the property names that are present to their
\* properties, so that GetProperty returns nil exactly for a name outside
\* DOMAIN props.

HasProperty(comp, name) == name \in DOMAIN comp.props

\* m[key] of a Go map: the zero value (an empty list) for a missing key.
Param(prop, key) ==
    IF key \in DOMAIN prop.ICalParameters THEN prop.ICalParameters[key] ELSE <<>>

\* strings.HasSuffix(value, "Z")
HasSuffixZ(value) == value.form = "DTZ"

Failed == [ok |-> FALSE, t |-> ZeroTime]

Parsed(t) == [ok |-> TRUE, t |-> t]

\* time.Parse("20060102", value): a bare date, read in UTC.
ParseDate(value) ==
    IF value.form = "DATE"
    THEN Parsed(MkTime(DateInstant(value.y, value.m, value.d, 0, "UTC", "UTC"), "UTC"))
    ELSE Failed

\* time.Parse("20060102T150405Z", value)
ParseUTC(value) ==
    IF value.form = "DTZ"
    THEN Parsed(MkTime(DateInstant(value.y, value.m, value.d, value.h, "UTC", "UTC"), "UTC"))
    ELSE Failed

\* time.ParseInLocation("20060102T150405", value, loc)
ParseInLocation(value, loc, local) ==
    IF value.form = "DT"
    THEN Parsed(MkTime(DateInstant(value.y, value.m, value.d, value.h, loc, local), loc))
    ELSE Failed

\* Two faulty variants of parseICalTime: an unresolvable TZID falls back to
\* the local zone; the Z suffix is not looked at.
parseICalTimeFallback(value, prop, local) ==
    IF HasSuffixZ(value) THEN ParseUTC(value)
    ELSE LET tzidVals == Param(prop, "TZID")
         IN  IF "TZID" \in DOMAIN prop.ICalParameters /\ Len(tzidVals) > 0
                /\ LoadLocationOk(tzidVals[1])
             THEN ParseInLocation(value, tzidVals[1], local)
             ELSE ParseInLocation(value, "Local", local)

parseICalTimeNoZ(value, prop, local) ==
    LET tzidVals == Param(prop, "TZID")
        naive == [value EXCEPT !.form = IF @ = "DTZ" THEN "DT" ELSE @]
    IN  IF "TZID" \in DOMAIN prop.ICalParameters /\ Len(tzidVals) > 0
        THEN IF LoadLocationOk(tzidVals[1])
             THEN ParseInLocation(naive, tzidVals[1], local)
             ELSE Failed
        ELSE ParseInLocation(naive, "Local", local)

\* parseICalTime(value, prop)
parseICalTime(value, prop, local) ==
    IF HasSuffixZ(value) THEN ParseUTC(value)
    ELSE LET tzidVals == Param(prop, "TZID")
         IN  IF "TZID" \in DOMAIN prop.ICalParameters /\ Len(tzidVals) > 0
             THEN IF LoadLocationOk(tzidVals[1])
                  THEN ParseInLocation(value, tzidVals[1], local)
                  ELSE Failed
             ELSE ParseInLocation(value, "Local", local)

\* "Adjust for time zones if TZID is present": t re-expressed in the zone the
\* property's TZID names, when it names one.
AdjustZone(t, prop) ==
    LET tzidVals == Param(prop, "TZID")
    IN  IF "TZID" \in DOMAIN prop.ICalParameters /\ Len(tzidVals) > 0
           /\ LoadLocationOk(tzidVals[1])
        THEN In(t, tzidVals[1])
        ELSE t

NoEvent ==
    [UID |-> "", Summary |-> "", Description |-> "", Location |-> "",
     Start |-> ZeroTime, End |-> ZeroTime, AllDay |-> FALSE]

\* What a call of parseEvent produces: an Event ("event"), nil with no error
\* ("absent"), an error ("err"), or a nil-pointer dereference ("panic").
Outcome(kind, ev) == [kind |-> kind, ev |-> ev]

\* The start and end of the component, before the zone adjustment.
EventTimes(vevent, local) ==
    LET startProp == vevent.props["DTSTART"]
        valueParam == Param(startProp, "VALUE")
        allDay == Len(valueParam) > 0 /\ valueParam[1] = "DATE"
        hasEnd == HasProperty(vevent, "DTEND")
        s == IF allDay THEN ParseDate(startProp.Value)
             ELSE parseICalTime(startProp.Value, startProp, local)
        e == IF ~hasEnd THEN (IF allDay THEN Parsed(Add(s.t, 24)) ELSE Parsed(s.t))
             ELSE IF allDay THEN ParseDate(vevent.props["DTEND"].Value)
             ELSE parseICalTime(vevent.props["DTEND"].Value, vevent.props["DTEND"], local)
    IN  [ok |-> s.ok /\ e.ok, start |-> s.t, end |-> e.t, allDay |-> allDay]

TextProperties == {"UID", "SUMMARY", "DESCRIPTION", "LOCATION"}

\* end.After(targetStart) && start.Before(targetEnd)
Overlaps(start, end, tStart, tEnd) ==
    After(end, MkTime(tStart, "Local")) /\ Before(start, MkTime(tEnd, "Local"))

\* parseEvent(vevent, targetStart, targetEnd)
parseEvent(vevent, tStart, tEnd, local) ==
    IF ~HasProperty(vevent, "DTSTART") THEN Outcome("err", NoEvent)
    ELSE LET times == EventTimes(vevent, local)
         IN  IF ~times.ok THEN Outcome("err", NoEvent)
             ELSE LET start == AdjustZone(times.start, vevent.props["DTSTART"])
                      end == IF HasProperty(vevent, "DTEND")
                             THEN AdjustZone(times.end, vevent.props["DTEND"])
                             ELSE times.end
                  IN  IF Overlaps(start, end, tStart, tEnd)
                      THEN IF \E p \in TextProperties : ~HasProperty(vevent, p)
                           THEN Outcome("panic", NoEvent)
                           ELSE Outcome("event",
                                    [UID |-> vevent.props["UID"].Value,
                                     Summary |-> vevent.props["SUMMARY"].Value,
                                     Description |-> vevent.props["DESCRIPTION"].Value,
                                     Location |-> vevent.props["LOCATION"].Value,
                                     Start |-> start, End |-> end,
                                     AllDay |-> times.allDay])
                      ELSE Outcome("absent", NoEvent)

-----------------------------------------------------------------------------
(* caljsonHandler *)

Digits == <<"0", "1", "2", "3", "4", "5", "6", "7", "8", "9">>

IsDigit(c) == \E i \in 1..10 : Digits[i] = c

DigitValue(c) == (CHOOSE i \in 1..10 : Digits[i] = c) - 1

RECURSIVE DecimalValue(_)
DecimalValue(s) ==
    IF s = <<>> THEN 0
    ELSE DecimalValue(SubSeq(s, 1, Len(s) - 1)) * 10 + DigitValue(s[Len(s)])

\* strconv.Atoi(s): an optional sign, then one or more decimal digits.
Atoi(s) ==
    LET signed == s # <<>> /\ s[1] \in {"-", "+"}
        digits == IF signed THEN Tail(s) ELSE s
    IN  IF digits # <<>> /\ \A i \in 1..Len(digits) : IsDigit(digits[i])
        THEN [ok |-> TRUE,
              val |-> IF signed /\ s[1] = "-" THEN 0 - DecimalValue(digits)
                      ELSE DecimalValue(digits)]
        ELSE [ok |-> FALSE, val |-> 0]

\* url.QueryUnescape(icsURL): fails on a "%" that no two hex digits follow.
QueryUnescapeOk(s) == s # "http://h/a%zz"

\* http.Error(w, msg, status)
ErrorResponse(status, msg) == [status |-> status, msg |-> msg, body |-> <<>>]

\* json.NewEncoder(w).Encode(events), status 200
OkResponse(list) == [status |-> 200, msg |-> "", body |-> list]

\* A faulty variant of AddDate: the day is clamped to the month instead of
\* rolling over into the next or the previous one.
AddDateClamped(t, days) ==
    LET len == DaysBefore(t.m + 1, t.y) - DaysBefore(t.m, t.y)
        d == t.d + days
    IN  [t EXCEPT !.d = IF d < 1 THEN 1 ELSE IF d > len THEN len ELSE d]

\* now.AddDate(0, 0, days)
AddDate(t, days) ==
    LET c == CivilOf(AbsDay(t.y, t.m, t.d + days))
    IN  [y |-> c.y, m |-> c.m, d |-> c.d, h |-> t.h]

\* time.Date(targetDate.Year(), targetDate.Month(), targetDate.Day(), 0, 0, 0, 0, time.Local)
TargetStartOf(date, local) == DateInstant(date.y, date.m, date.d, 0, "Local", local)

\* A faulty variant of Less: the comparison is the wrong way round.
LessReversed(s, i, j) == Before(s[j].Start, s[i].Start)

\* The less function handed to sort.Slice.
Less(s, i, j) == Before(s[i].Start, s[j].Start)

Swap(s, i, j) == [s EXCEPT ![i] = s[j], ![j] = s[i]]

\* sort.Slice on a short slice is an insertion sort:
\*   for i := 1; i < n; i++ { for j := i; j > 0 && less(j, j-1); j-- { swap(j, j-1) } }
RECURSIVE SiftDown(_, _)
SiftDown(s, j) ==
    IF j > 1 /\ Less(s, j, j - 1) THEN SiftDown(Swap(s, j, j - 1), j - 1) ELSE s

RECURSIVE InsertionSortFrom(_, _)
InsertionSortFrom(s, i) ==
    IF i > Len(s) THEN s ELSE InsertionSortFrom(SiftDown(s, i), i + 1)

SortSlice(s) == InsertionSortFrom(s, 2)

NoDate == [y |-> 1, m |-> 1, d |-> 1, h |-> 0]

\* Lines 31-55: the query parameters.
CheckParams ==
    /\ pc = "recv"
    /\ LET ds == IF dayStr = <<>> THEN <<"0">> ELSE dayStr
           n == Atoi(ds)
       IN  IF ics = ""
           THEN /\ resp' = Append(resp, ErrorResponse(400, "Missing 'ics' parameter"))
                /\ pc' = "done"
                /\ UNCHANGED dayOffset
           ELSE IF ~n.ok
           THEN /\ resp' = Append(resp, ErrorResponse(400, "Invalid 'day' parameter"))
                /\ pc' = "done"
                /\ UNCHANGED dayOffset
           ELSE IF ~QueryUnescapeOk(ics)
           THEN /\ resp' = Append(resp, ErrorResponse(400, "Invalid 'ics' URL"))
                /\ pc' = "done"
                /\ dayOffset' = n.val
           ELSE /\ pc' = "fetch"
                /\ dayOffset' = n.val
                /\ UNCHANGED resp
    /\ UNCHANGED <<ics, dayStr, localZone, now, doc, targetDate, targetStart,
                   targetEnd, idx, events, last>>

FetchOutcomes == {"error", "status", "unreadable", "ok"}

\* Lines 60-77: http.Get, the status check, ioutil.ReadAll.
Fetch ==
    /\ pc = "fetch"
    /\ \E o \in FetchOutcomes :
          CASE o = "error" ->
                  /\ resp' = Append(resp, ErrorResponse(500, "Failed to fetch ICS URL"))
                  /\ pc' = "done"
            [] o = "status" ->
                  /\ resp' = Append(resp, ErrorResponse(500, "Failed to retrieve ICS file"))
                  /\ pc' = "done"
            [] o = "unreadable" ->
                  /\ resp' = Append(resp, ErrorResponse(500, "Failed to read ICS data"))
                  /\ pc' = "done"
            [] o = "ok" ->
                  /\ pc' = "parse"
                  /\ UNCHANGED resp
    /\ UNCHANGED <<ics, dayStr, dayOffset, localZone, now, doc, targetDate,
                   targetStart, targetEnd, idx, events, last>>

\* Lines 86-90: the target window.
TargetWindow ==
    /\ pc = "window"
    /\ targetDate' = AddDate(now, dayOffset)
    /\ targetStart' = TargetStartOf(targetDate', localZone)
    /\ targetEnd' = targetStart' + 24
    /\ idx' = 1
    /\ events' = <<>>
    /\ pc' = "loop"
    /\ UNCHANGED <<ics, dayStr, dayOffset, localZone, now, doc, last, resp>>

\* What the server does with a handler that panics: net/http recovers, logs
\* and closes the connection with nothing written (src/main.go); gin's
\* recovery middleware answers 500 (the gin build).
PanicResponses == {<<>>, <<ErrorResponse(500, "panic")>>}

\* Lines 94-104: one iteration of the range loop.
Collect ==
    /\ pc = "loop"
    /\ idx <= Len(doc)
    /\ LET component == doc[idx]
           r == IF component.kind = "VEVENT"
                THEN parseEvent(component, targetStart, targetEnd, localZone)
                ELSE Outcome("skipped", NoEvent)
       IN  /\ last' = r
           /\ IF r.kind = "panic"
              THEN /\ pc' = "panic"
                   /\ \E w \in PanicResponses : resp' = resp \o w
                   /\ UNCHANGED <<idx, events>>
              ELSE /\ idx' = idx + 1
                   /\ events' = IF r.kind = "event" THEN Append(events, r.ev) ELSE events
                   /\ UNCHANGED <<pc, resp>>
    /\ UNCHANGED <<ics, dayStr, dayOffset, localZone, now, doc, targetDate,
                   targetStart, targetEnd>>

\* Lines 106-117: sort.Slice, then the JSON response.  events keeps the slice
\* as collected; the body is the slice as sorted.
Respond ==
    /\ pc = "loop"
    /\ idx > Len(doc)
    /\ resp' = Append(resp, OkResponse(SortSlice(events)))
    /\ pc' = "done"
    /\ UNCHANGED <<ics, dayStr, dayOffset, localZone, now, doc, targetDate,
                   targetStart, targetEnd, idx, events, last>>

-----------------------------------------------------------------------------
(* The inputs *)

Value(form, y, m, d, h) == [form |-> form, y |-> y, m |-> m, d |-> d, h |-> h]

BadValue == Value("BAD", 0, 0, 0, 0)

Prop(value, params) == [Value |-> value, ICalParameters |-> params]

\* No parameter at all.
NoParams == [k \in {} |-> <<>>]

TzidParam(vals) == [k \in {"TZID"} |-> vals]

ValueDateParam == [k \in {"VALUE"} |-> <<"DATE">>]

Text(s) == [Value |-> s, ICalParameters |-> NoParams]

\* The four text properties, all present.
TextProps ==
    [p \in TextProperties |->
        CASE p = "UID" -> Text("uid")
          [] p = "SUMMARY" -> Text("summary")
          [] p = "DESCRIPTION" -> Text("description")
          [] p = "LOCATION" -> Text("location")]

Restrict(f, S) == [x \in S |-> f[x]]

\* f and g together (their domains are disjoint).
Merge(f, g) == [x \in DOMAIN f \cup DOMAIN g |-> IF x \in DOMAIN f THEN f[x] ELSE g[x]]

VEvent(props) == [kind |-> "VEVENT", props |-> props]

\* A timed event on 2024-03-01 from hour h to hour h + 1, wall-clock time of
\* the local zone, carrying the text properties named in texts.
Timed(h, uid, texts) ==
    VEvent(Merge(Restrict([TextProps EXCEPT !["UID"] = Text(uid)], texts),
                 [p \in {"DTSTART", "DTEND"} |->
                    IF p = "DTSTART" THEN Prop(Value("DT", 2024, 3, 1, h), NoParams)
                    ELSE Prop(Value("DT", 2024, 3, 1, h + 1), NoParams)]))

Malformed ==
    VEvent(Merge(TextProps, [p \in {"DTSTART"} |-> Prop(BadValue, NoParams)]))

NoStart == VEvent(TextProps)

VTimezone == [kind |-> "VTIMEZONE", props |-> [p \in {"TZID"} |-> Text("Asia/Tokyo")]]

\* The components of the documents of Spec.
SampleComponents ==
    { Timed(10, "a", TextProperties), Timed(8, "b", TextProperties),
      Timed(9, "c", TextProperties), Timed(9, "d", TextProperties \ {"SUMMARY"}),
      Malformed, NoStart, VTimezone }

Docs == UNION { [1..n -> SampleComponents] : n \in 0..MaxComponents }

\* The dates and hours of the property values of SpecEvent.
EventDates == { <<2024, 2, 29>>, <<2024, 3, 1>>, <<2024, 3, 2>> }

EventHours == {0, 15}

Values ==
    { Value("DATE", c[1], c[2], c[3], 0) : c \in EventDates }
    \cup { Value(f, c[1], c[2], c[3], h) : f \in {"DT", "DTZ"}, c \in EventDates, h \in EventHours }
    \cup { BadValue }

TzidParams ==
    { NoParams, TzidParam(<<>>), TzidParam(<<"Asia/Tokyo">>), TzidParam(<<"Mars/Olympus">>) }

StartProps ==
    { Prop(v, q) : v \in Values, q \in TzidParams }
    \cup { Prop(v, Merge(ValueDateParam, q)) : v \in Values, q \in TzidParams }

EndProps == { Prop(v, q) : v \in Values, q \in TzidParams }

\* Which text properties a component carries: all of them, or all but one.
TextChoices == { TextProperties } \cup { TextProperties \ {p} : p \in TextProperties }

TimeProps ==
    { NoParams }
    \cup { [p \in {"DTSTART"} |-> s] : s \in StartProps }
    \cup { [p \in {"DTEND"} |-> e] : e \in EndProps }
    \cup { [p \in {"DTSTART", "DTEND"} |-> IF p = "DTSTART" THEN s ELSE e] :
             s \in StartProps, e \in EndProps }

\* The components of SpecEvent.
EventComponents ==
    { VEvent(Merge(Restrict(TextProps, t), tp)) : t \in TextChoices, tp \in TimeProps }

IntStr(n) == IF n < 0 THEN <<"-", Digits[1 - n]>> ELSE <<Digits[n + 1]>>

DayStrings ==
    { IntStr(n) : n \in (0 - MaxDayOffset)..MaxDayOffset }
    \cup { <<>>, <<"x">>, <<"1", "x">>, <<"-">>, <<"+", "1">> }

IcsParams == { "", "http://h/a.ics", "http://h/a%zz" }

DaysIn(m, y) ==
    IF m = 2 THEN (IF IsLeap(y) THEN 29 ELSE 28)
    ELSE IF m \in {4, 6, 9, 11} THEN 30 ELSE 31

\* The instants "now" of SpecWindow: every day of two years, early and late.
AllNows ==
    { [y |-> y, m |-> m, d |-> d, h |-> h] :
        y \in {2023, 2024}, m \in 1..12, d \in 1..31, h \in {0, 23} }

WindowNows == { t \in AllNows : t.d <= DaysIn(t.m, t.y) }

Noon == [y |-> 2024, m |-> 3, d |-> 1, h |-> 12]

\* Lines 79-84: ics.ParseCalendar.
ParseCalendar ==
    /\ pc = "parse"
    /\ \/ /\ resp' = Append(resp, ErrorResponse(500, "Failed to parse ICS data"))
          /\ pc' = "done"
          /\ UNCHANGED doc
       \/ /\ doc' \in Docs
          /\ pc' = "window"
          /\ UNCHANGED resp
    /\ UNCHANGED <<ics, dayStr, dayOffset, localZone, now, targetDate,
                   targetStart, targetEnd, idx, events, last>>

Rest ==
    /\ targetDate = NoDate
    /\ targetStart = 0
    /\ targetEnd = 0
    /\ idx = 1
    /\ events = <<>>
    /\ last = Outcome("none", NoEvent)
    /\ resp = <<>>

\* A request arrives.
Init ==
    /\ pc = "recv"
    /\ ics \in IcsParams
    /\ dayStr \in DayStrings
    /\ dayOffset = 0
    /\ localZone \in LocalZones
    /\ now = Noon
    /\ doc = <<>>
    /\ Rest

Next == CheckParams \/ Fetch \/ ParseCalendar \/ TargetWindow \/ Collect \/ Respond

Spec == Init /\ [][Next]_vars

\* The handler from the parsed document on, for a document of one event
\* component.
InitEvent ==
    /\ pc = "window"
    /\ ics = "http://h/a.ics"
    /\ dayOffset \in {0, 1}
    /\ dayStr = IntStr(dayOffset)
    /\ localZone \in LocalZones
    /\ now = Noon
    /\ doc \in { <<c>> : c \in EventComponents }
    /\ Rest

NextEvent == TargetWindow \/ Collect \/ Respond

SpecEvent == InitEvent /\ [][NextEvent]_vars

\* The target window, for every day and offset.
InitWindow ==
    /\ pc = "window"
    /\ ics = "http://h/a.ics"
    /\ dayOffset \in (0 - MaxDayOffset)..MaxDayOffset
    /\ dayStr = IntStr(dayOffset)
    /\ localZone \in LocalZones
    /\ now \in WindowNows
    /\ doc = <<>>
    /\ Rest

NextWindow == TargetWindow

SpecWindow == InitWindow /\ [][NextWindow]_vars

-----------------------------------------------------------------------------
(* What the claims speak of *)

\* The loop has visited a component; Current is the one visited last.
Visited == last.kind # "none"

Current == IF pc = "panic" THEN doc[idx] ELSE doc[idx - 1]

\* The request is over: a response was written or the handler panicked.
Ended == pc \in {"done", "panic"}

StartProp == Current.props["DTSTART"]

EndProp == Current.props["DTEND"]

IsAllDay(c) ==
    LET v == Param(c.props["DTSTART"], "VALUE") IN Len(v) > 0 /\ v[1] = "DATE"

\* An event component with a start property, just visited.
VisitedEvent == Visited /\ Current.kind = "VEVENT" /\ HasProperty(Current, "DTSTART")

AllTexts(c) == \A p \in TextProperties : HasProperty(c, p)

\* The Event field a text property goes to.
FieldOf(ev, p) ==
    CASE p = "UID" -> ev.UID
      [] p = "SUMMARY" -> ev.Summary
      [] p = "DESCRIPTION" -> ev.Description
      [] p = "LOCATION" -> ev.Location

\* The property has no Z suffix and a TZID whose first value names no zone.
UnresolvableTzid(prop) ==
    /\ ~HasSuffixZ(prop.Value)
    /\ "TZID" \in DOMAIN prop.ICalParameters
    /\ Len(prop.ICalParameters["TZID"]) > 0
    /\ ~LoadLocationOk(prop.ICalParameters["TZID"][1])

\* The wall-clock reading of a value, in hours, zone apart.
WallHours(value) == (DaysSinceEpoch(value.y) + DaysBefore(value.m, value.y) + value.d - 1) * 24 + value.h

\* C1 (as stated): whenever start and end parse to S and E, parseEvent
\* returns an Event if and only if E > W0 and S < W1.
C1_IncludedIffOverlap ==
    VisitedEvent =>
        LET t == EventTimes(Current, localZone)
        IN  t.ok => (last.kind = "event"
                        <=> (t.end.inst > targetStart /\ t.start.inst < targetEnd))

\* C1, for the components that carry all four text properties: the
\* equivalence holds, with the instants of the Event those parsed.
C1_IncludedIffOverlapWithTexts ==
    (VisitedEvent /\ AllTexts(Current)) =>
        LET t == EventTimes(Current, localZone)
        IN  t.ok => /\ last.kind = "event"
                        <=> (t.end.inst > targetStart /\ t.start.inst < targetEnd)
                    /\ last.kind \in {"event", "absent"}
                    /\ last.kind = "event" =>
                          /\ last.ev.Start.inst = t.start.inst
                          /\ last.ev.End.inst = t.end.inst

\* C2 (as stated): an event overlapping the window that lacks a text property
\* yields an Event whose field for it is the empty string, and the request
\* does not fail.
C2_MissingTextIsEmpty ==
    (VisitedEvent /\ ~AllTexts(Current)) =>
        LET t == EventTimes(Current, localZone)
        IN  (t.ok /\ t.end.inst > targetStart /\ t.start.inst < targetEnd) =>
                /\ last.kind = "event"
                /\ \A p \in TextProperties :
                      ~HasProperty(Current, p) => FieldOf(last.ev, p) = ""
                /\ pc # "panic"

\* A timed event whose start is a well-formed naive date-time with an
\* unresolvable TZID, and whose end is absent.
UnresolvableStart ==
    /\ VisitedEvent
    /\ ~IsAllDay(Current)
    /\ StartProp.Value.form = "DT"
    /\ UnresolvableTzid(StartProp)
    /\ ~HasProperty(Current, "DTEND")
    /\ AllTexts(Current)

\* C3 (as stated): an unresolvable TZID is ignored; the naive date-time is
\* read in the local zone, no error is returned, and the event is returned
\* whenever that reading overlaps the window.
C3_UnresolvableIgnored ==
    UnresolvableStart =>
        LET s == WallHours(StartProp.Value) - ZoneOffsets[localZone]
        IN  /\ last.kind # "err"
            /\ (s > targetStart /\ s < targetEnd) =>
                  (last.kind = "event" /\ last.ev.Start.inst = s)

\* C3 (amended): for a timed event with a start property, a start or an end
\* without Z suffix whose non-empty TZID names an unresolvable zone makes
\* parseEvent return an error and no Event; the component is skipped and the
\* request still succeeds.
C3_UnresolvableIsError ==
    (/\ VisitedEvent
     /\ ~IsAllDay(Current)
     /\ \/ UnresolvableTzid(StartProp)
        \/ HasProperty(Current, "DTEND") /\ UnresolvableTzid(EndProp)) =>
        /\ last.kind = "err"
        /\ events = <<>>
        /\ pc # "panic"
        /\ pc = "done" => resp = <<OkResponse(<<>>)>>

C3_Witness ==
    /\ UnresolvableStart
    /\ LET s == WallHours(StartProp.Value) - ZoneOffsets[localZone]
       IN  s > targetStart /\ s < targetEnd
    /\ last.kind = "err"
    /\ pc = "done"

\* C5 (as stated, for components with all text properties): an all-day event
\* with DTSTART = D and no DTEND is returned for the window of local day D,
\* with end = start + 1 day and the all-day flag, and is not returned for the
\* window of local day D + 1.
C5_AllDaySingleDay ==
    (/\ VisitedEvent
     /\ IsAllDay(Current)
     /\ StartProp.Value.form = "DATE"
     /\ ~HasProperty(Current, "DTEND")
     /\ AllTexts(Current)) =>
        LET D == AbsDay(StartProp.Value.y, StartProp.Value.m, StartProp.Value.d)
            T == AbsDay(targetDate.y, targetDate.m, targetDate.d)
        IN  /\ T = D => /\ last.kind = "event"
                        /\ last.ev.AllDay
                        /\ last.ev.End.inst = last.ev.Start.inst + 24
            /\ T = D + 1 => last.kind = "absent"

\* C6 (as stated): a timed event with a start and no end is returned exactly
\* when targetStart < start < targetEnd, with the end instant that of the
\* start and the all-day flag false.
C6_ZeroDuration ==
    (/\ VisitedEvent
     /\ ~IsAllDay(Current)
     /\ ~HasProperty(Current, "DTEND")) =>
        LET s == parseICalTime(StartProp.Value, StartProp, localZone)
        IN  s.ok => /\ last.kind = "event"
                        <=> (targetStart < s.t.inst /\ s.t.inst < targetEnd)
                    /\ last.kind = "event" =>
                          (last.ev.End.inst = last.ev.Start.inst /\ ~last.ev.AllDay)

\* C6, for the components that carry all four text properties.
C6_ZeroDurationWithTexts ==
    (/\ VisitedEvent
     /\ ~IsAllDay(Current)
     /\ ~HasProperty(Current, "DTEND")
     /\ AllTexts(Current)) =>
        LET s == parseICalTime(StartProp.Value, StartProp, localZone)
        IN  s.ok => /\ last.kind = "event"
                        <=> (targetStart < s.t.inst /\ s.t.inst < targetEnd)
                    /\ last.kind = "event" =>
                          (last.ev.End.inst = last.ev.Start.inst /\ ~last.ev.AllDay)

-----------------------------------------------------------------------------
(* Claims about the whole request *)

\* The response of a request that wrote exactly one.
TheResponse == resp[1]

Succeeded == pc = "done" /\ Len(resp) = 1 /\ TheResponse.status = 200

\* The components of the document for which extraction returns an Event.
Extracted ==
    { i \in 1..Len(doc) :
        /\ doc[i].kind = "VEVENT"
        /\ parseEvent(doc[i], targetStart, targetEnd, localZone).kind = "event" }

\* C4 (as stated): once the document is parsed, a failing component is
\* skipped, the request completes with a success response, and the result
\* holds exactly one entry for each component extraction returns an Event for.
C4_SkipAndContinue ==
    (Ended /\ targetEnd # 0) =>
        /\ Succeeded
        /\ Len(TheResponse.body) = Cardinality(Extracted)

\* C4, for documents whose event components all carry the four text
\* properties.
C4_SkipAndContinueWithTexts ==
    (Ended /\ targetEnd # 0
        /\ \A i \in 1..Len(doc) : doc[i].kind = "VEVENT" => AllTexts(doc[i])) =>
        /\ Succeeded
        /\ Len(TheResponse.body) = Cardinality(Extracted)
        /\ Len(events) = Cardinality(Extracted)

Occurrences(s, e) == Cardinality({ i \in 1..Len(s) : s[i] = e })

Elements(s) == { s[i] : i \in 1..Len(s) }

IsPermutation(s, t) ==
    /\ Len(s) = Len(t)
    /\ \A e \in Elements(s) \cup Elements(t) : Occurrences(s, e) = Occurrences(t, e)

\* C7: the list of a successful response is a permutation of the events the
\* loop collected, in non-decreasing order of start instant; no event
\* collected gives the empty list.
C7_SortedPermutation ==
    Succeeded =>
        LET body == TheResponse.body
        IN  /\ IsPermutation(body, events)
            /\ \A i, j \in 1..Len(body) :
                  i < j => ~(body[j].Start.inst < body[i].Start.inst)
            /\ events = <<>> => body = <<>>

\* Three events collected with starts 10:00, 08:00, 09:00.
C7_Witness ==
    /\ Succeeded
    /\ Len(events) = 3
    /\ events[2].Start.inst < events[3].Start.inst
    /\ events[3].Start.inst < events[1].Start.inst
    /\ TheResponse.body = <<events[2], events[3], events[1]>>

ParamMessages ==
    {"Missing 'ics' parameter", "Invalid 'day' parameter", "Invalid 'ics' URL"}

UpstreamMessages ==
    {"Failed to fetch ICS URL", "Failed to retrieve ICS file",
     "Failed to read ICS data", "Failed to parse ICS data"}

\* The three parameter faults, read off the request.
ParamFault ==
    \/ ics = ""
    \/ ~Atoi(IF dayStr = <<>> THEN <<"0">> ELSE dayStr).ok
    \/ ~QueryUnescapeOk(ics)

\* C8 (as stated): every request ends with exactly one response: 4xx without
\* a list for a parameter fault, 5xx without a list for an upstream fault,
\* and 200 with the list otherwise; faults of single events never make the
\* response an error.
C8_AllOrNothing ==
    Ended =>
        /\ Len(resp) = 1
        /\ \/ /\ TheResponse.status = 200
              /\ ~ParamFault
           \/ /\ TheResponse.status = 400
              /\ TheResponse.msg \in ParamMessages
              /\ TheResponse.body = <<>>
              /\ ParamFault
           \/ /\ TheResponse.status = 500
              /\ TheResponse.msg \in UpstreamMessages
              /\ TheResponse.body = <<>>
              /\ ~ParamFault

\* C8, for documents whose event components all carry the four text
\* properties.
C8_AllOrNothingWithTexts ==
    (Ended /\ \A i \in 1..Len(doc) : doc[i].kind = "VEVENT" => AllTexts(doc[i])) =>
        C8_AllOrNothing

-----------------------------------------------------------------------------
(* The target window *)

NextDay(c) ==
    IF c.d < DaysIn(c.m, c.y) THEN [c EXCEPT !.d = c.d + 1]
    ELSE IF c.m < 12 THEN [y |-> c.y, m |-> c.m + 1, d |-> 1]
    ELSE [y |-> c.y + 1, m |-> 1, d |-> 1]

PrevDay(c) ==
    IF c.d > 1 THEN [c EXCEPT !.d = c.d - 1]
    ELSE IF c.m > 1 THEN [y |-> c.y, m |-> c.m - 1, d |-> DaysIn(c.m - 1, c.y)]
    ELSE [y |-> c.y - 1, m |-> 12, d |-> 31]

\* The calendar date n days after (n < 0: before) date c, a day at a time.
RECURSIVE StepDays(_, _)
StepDays(c, n) ==
    IF n = 0 THEN c
    ELSE IF n > 0 THEN StepDays(NextDay(c), n - 1)
    ELSE StepDays(PrevDay(c), n + 1)

DateOf(t) == [y |-> t.y, m |-> t.m, d |-> t.d]

\* The local wall-clock reading of an instant: its date and its hour.
LocalReading(inst) ==
    LET w == inst + ZoneOffsets[localZone]
    IN  [date |-> CivilOf(w \div 24), hour |-> w % 24]

\* C9: targetStart is local midnight of the date dayOffset calendar days from
\* now's local date, month and year rollover included, and targetEnd is
\* targetStart + 24 hours; day = -1 on the 1st of a month gives the last day
\* of the previous month.
C9_TargetWindow ==
    pc = "loop" =>
        LET want == StepDays(DateOf(now), dayOffset)
        IN  /\ DateOf(targetDate) = want
            /\ LocalReading(targetStart) = [date |-> want, hour |-> 0]
            /\ targetEnd = targetStart + 24
            /\ (now.d = 1 /\ dayOffset = 0 - 1) =>
                  /\ want.d = DaysIn(want.m, want.y)
                  /\ want.m = (IF now.m = 1 THEN 12 ELSE now.m - 1)
                  /\ want.y = (IF now.m = 1 THEN now.y - 1 ELSE now.y)

\* 2024-03-01 with day = -1: the window of 2024-02-29.
C9_Witness ==
    /\ pc = "loop"
    /\ DateOf(now) = [y |-> 2024, m |-> 3, d |-> 1]
    /\ dayOffset = 0 - 1
    /\ DateOf(targetDate) = [y |-> 2024, m |-> 2, d |-> 29]
    /\ targetEnd = targetStart + 24

-----------------------------------------------------------------------------
(* The zone a timed value is read in *)

\* The zone the claim names for a property.
ChosenZone(prop) ==
    IF HasSuffixZ(prop.Value) THEN "UTC"
    ELSE IF "TZID" \in DOMAIN prop.ICalParameters
            /\ Len(prop.ICalParameters["TZID"]) > 0
         THEN prop.ICalParameters["TZID"][1]
         ELSE localZone

\* The property is one the claim covers: a well-formed timed value whose
\* zone is UTC, a resolvable TZID, or the local zone.
Covered(prop) ==
    /\ prop.Value.form \in {"DT", "DTZ"}
    /\ ~UnresolvableTzid(prop)

ReadsAsClaimed(prop) ==
    LET t == parseICalTime(prop.Value, prop, localZone)
    IN  /\ t.ok
        /\ t.t.inst = WallHours(prop.Value) - ZoneOffsets[ChosenZone(prop)]

\* C10: a well-formed timed value is read as wall-clock time in UTC if it
\* ends in Z, else in the zone of its first TZID value if that resolves, else
\* (no TZID, or an empty one) in the local zone; the instants of the Event
\* returned are those instants, the later re-expression in the TZID zone
\* notwithstanding.
C10_ZoneChoice ==
    (VisitedEvent /\ ~IsAllDay(Current)) =>
        /\ Covered(StartProp) =>
              /\ ReadsAsClaimed(StartProp)
              /\ last.kind = "event" =>
                    last.ev.Start.inst
                        = WallHours(StartProp.Value) - ZoneOffsets[ChosenZone(StartProp)]
        /\ (HasProperty(Current, "DTEND") /\ Covered(EndProp)) =>
              /\ ReadsAsClaimed(EndProp)
              /\ last.kind = "event" =>
                    last.ev.End.inst
                        = WallHours(EndProp.Value) - ZoneOffsets[ChosenZone(EndProp)]

\* An Event returned whose start is naive with TZID=Asia/Tokyo and whose end
\* has the Z suffix beside the same TZID, in a process whose zone is another.
C10_Witness ==
    /\ VisitedEvent
    /\ ~IsAllDay(Current)
    /\ last.kind = "event"
    /\ localZone = "America/Phoenix"
    /\ StartProp.Value.form = "DT"
    /\ Param(StartProp, "TZID") = <<"Asia/Tokyo">>
    /\ HasProperty(Current, "DTEND")
    /\ EndProp.Value.form = "DTZ"
    /\ Param(EndProp, "TZID") = <<"Asia/Tokyo">>
    /\ last.ev.Start.loc = "Asia/Tokyo"
    /\ last.ev.End.loc = "Asia/Tokyo"
    /\ last.ev.End.inst = WallHours(EndProp.Value)

=============================================================================
